---------------------------- MODULE Spec2Model ----------------------------
(***************************************************************************)
(* A model of the nibble link layer of CreatorSiSo/protocol:               *)
(*   escape.rs  - EscapeCode, Escaped (the escape encoder)                 *)
(*   main.rs    - encode_frame (the packer), Connection, and the           *)
(*                InputStream / OutputStream that main.rs itself defines   *)
(*   stream.rs  - the InputStream / OutputStream / Window of stream.rs     *)
(*   device.rs  - DebugDevice / MirrorDevice (the loopback)                *)
(* Bytes are integers 0..255, nibbles 0..15.  Rust arrays are 0-based, the *)
(* sequences here 1-based: frame[i] of the source is frame[i+1] here.      *)
(***************************************************************************)
EXTENDS Integers, Sequences, FiniteSets, TLC

VARIABLES
    source,     \* the finite input of the byte source (never changes)
    escaped,    \* escape.rs Escaped: bytes, escape, done (+ ghost src_none)
    yielded,    \* ghost: the items Escaped::next has returned so far
    pre,        \* ghost: the Escaped handed to the last encode_frame call
    post,       \* ghost: that Escaped when the call returned
    frame,      \* the frame the last encode_frame call returned (<<>>: none)
    panicked,   \* a todo!() / index panic has aborted the program
    o_stream,   \* stream.rs OutputStream: state, frame, index, window
    emitted,    \* ghost: the nibbles OutputStream::next has returned so far
    i_stream,   \* stream.rs InputStream: state, window, window_length, data,
                \* data_index
    log,        \* ghost: the commands other than None that push has returned,
                \* each with the number of the frame in transmission
    wire,       \* ghost: what drives the streams (which frames, how far)
    connection, \* main.rs Connection: i_stream, o_stream, data, done_receiving
    device,     \* the Connection's device (DebugDevice: other_side and its
                \* MirrorDevice's incoming, outgoing)
    sink,       \* the bytes each Connection has written to stdout
    returned,   \* what the last poll() returned ("none" before the first)
    polls       \* ghost: the poll() calls made so far

packVars == <<source, escaped, yielded, pre, post, frame>>
outVars == <<o_stream, emitted>>
inVars == <<i_stream, log, wire>>
connVars == <<connection, device, sink, returned, polls>>
vars == <<packVars, panicked, outVars, inVars, connVars>>

---------------------------------------------------------------------------
(* Bounds of the model.                                                    *)

\* longest byte source drawn in an initial state
MaxSrcLen == 4

\* main.rs:24 sets FRAME_DATA_LEN = 64 ("a tunable constant"); the model is
\* checked with short frames
FRAME_DATA_LEN == 2

\* most calls of OutputStream::next in one run
MaxNext == 8

\* most frames put on a wire one after another
MaxFrames == 2

\* bytes of 0xf0 before and after each frame on a wire (stream.rs:275 puts
\* five around its 64-byte frames)
IdleBytes == 1

\* idle nibbles after the last frame that count as the end of a round trip
DrainTicks == 4

\* most poll() calls of a Connection on a device that reads anything
MaxPolls == 6

\* most calls on an OutputStream whose calls are logged, and most
\* send_frame calls among them
MaxCalls == 8
MaxSends == 2

\* most idle bytes before and after a frame on a line
MaxIdle == 3
\* pushes on a free line beyond those of one whole frame
PushSlack == 10

\* most calls on a Window whose calls are logged
MaxWindowCalls == 10

\* most pieces of a script of nibbles that a device reads
MaxPieces == 4

---------------------------------------------------------------------------
(* Option / Result encodings and arithmetic on bytes.                      *)

\* Option::None of an Option<u8> / Option<io::Result<u8>>
None == -1
\* Some(Err(_)) of the byte source
Err == -2

Hi(byte) == byte \div 16
Lo(byte) == byte % 16
IsByte(x) == x \in 0..255

\* the byte values the sources of the model are drawn from: zero, an escape
\* code (EOF), Buffer2, and the idle byte
Bytes == {\H00, \H23, \H65, \Hf0}
Items == Bytes \cup {Err}

RECURSIVE SeqsOfLen(_, _)
SeqsOfLen(S, n) ==
    IF n = 0 THEN {<<>>}
    ELSE {Append(s, x) : s \in SeqsOfLen(S, n - 1), x \in S}
SeqsUpTo(S, n) == UNION {SeqsOfLen(S, k) : k \in 0..n}

IsPrefix(s, t) == Len(s) <= Len(t) /\ SubSeq(t, 1, Len(s)) = s

---------------------------------------------------------------------------
(* escape.rs: EscapeCode                                                   *)

StartOfFrame       == \H12
EndOfFrame         == \H23
CorrectFrameData   == \H34
IncorrectFrameData == \H45
Buffer1            == \H56
Buffer2            == \H65
FinishedSending    == \H67

\* a table with one value missing: the six codes of the wire format
VALUES_six ==
    {StartOfFrame, EndOfFrame, CorrectFrameData, IncorrectFrameData,
     Buffer1, FinishedSending}

\* EscapeCode::VALUES
VALUES ==
    {StartOfFrame, EndOfFrame, CorrectFrameData, IncorrectFrameData,
     Buffer1, Buffer2, FinishedSending}

\* EscapeCode::from_byte(byte).is_some()
from_byte(byte) == byte \in VALUES

---------------------------------------------------------------------------
(* escape.rs: Escaped                                                      *)

\* Escaped::new.  src_none is a ghost field: the underlying iterator has
\* returned its terminal None.
Escaped_new(bytes) ==
    [bytes |-> bytes, escape |-> None, done |-> FALSE, src_none |-> FALSE]

\* Escaped::is_done
is_done(e) == e.done

\* Escaped::next: the pending second half of an escaped value first; else
\* the next item of the source, remembering it when it is an escape code;
\* done = result.is_some().  Returns the new Escaped and the item.
Escaped_next(e) ==
    IF e.escape # None
    THEN [e |-> [e EXCEPT !.escape = None], item |-> e.escape]
    ELSE IF e.bytes = <<>>
    THEN [e |-> [e EXCEPT !.done = FALSE, !.src_none = TRUE], item |-> None]
    ELSE LET b == Head(e.bytes) IN
         [e |-> [e EXCEPT !.bytes = Tail(e.bytes),
                          !.escape = IF b \in VALUES THEN b ELSE None,
                          !.done = TRUE],
          item |-> b]

---------------------------------------------------------------------------
(* main.rs: frame constants and encode_frame                               *)

ESCAPE_CODE_LEN == 1
CHECKSUM_LEN == 0
FRAME_LEN == ESCAPE_CODE_LEN + FRAME_DATA_LEN + CHECKSUM_LEN + ESCAPE_CODE_LEN

ZeroFrame == [i \in 1..FRAME_LEN |-> 0]

\* the loop of encode_frame over the cells frame[1..1+FRAME_DATA_LEN], from
\* 0-based cell i on: a byte fills the cell, None breaks, an Err is todo!()
RECURSIVE fill(_, _, _, _)
fill(e, f, i, got) ==
    IF i >= 1 + FRAME_DATA_LEN
    THEN [e |-> e, frame |-> f, got |-> got, panic |-> FALSE]
    ELSE LET r == Escaped_next(e) IN
         IF r.item = None
         THEN [e |-> r.e, frame |-> f, got |-> got, panic |-> FALSE]
         ELSE IF r.item = Err
         THEN [e |-> r.e, frame |-> f, got |-> Append(got, Err), panic |-> TRUE]
         ELSE fill(r.e, [f EXCEPT ![i + 1] = r.item], i + 1, Append(got, r.item))

\* a packer that writes the closing code one cell early
encode_frame_eofEarly(e) ==
    LET r == fill(e, [ZeroFrame EXCEPT ![1] = StartOfFrame], 1, <<>>) IN
    [r EXCEPT !.frame = [r.frame EXCEPT ![FRAME_LEN - 1] = EndOfFrame]]

\* encode_frame: frame[0] = SOF, the data cells, frame[FRAME_LEN-1] = EOF.
\* Returns the frame, the Escaped after the call, the items pulled (ghost)
\* and whether the call panicked.
encode_frame(e) ==
    LET r == fill(e, [ZeroFrame EXCEPT ![1] = StartOfFrame], 1, <<>>) IN
    [r EXCEPT !.frame = [r.frame EXCEPT ![FRAME_LEN] = EndOfFrame]]

\* decode_frame: the data region of a frame
decode_frame(f) == SubSeq(f, 2, 1 + FRAME_DATA_LEN)


---------------------------------------------------------------------------
(* stream.rs: Window<N>, a nibble deque over N bytes; data[N-1] holds the   *)
(* two most recent nibbles.                                                *)

\* the N of OutputStream's window: Window<4>
WINDOW_N == 4

Window_new == [data |-> [i \in 1..WINDOW_N |-> 0], len |-> 0]

\* Window::get(index): the index-th most recent nibble, None from len on
Window_get(w, index) ==
    IF index < 0 \/ index >= w.len THEN None
    ELSE LET byte == w.data[WINDOW_N - (index \div 2)] IN
         IF index % 2 = 0 THEN Lo(byte) ELSE Hi(byte)

\* push_back that takes the full test one nibble early (len >= 2N - 1)
Window_push_back_fullEarly(w, nibble) ==
    LET filled == ((w.len + 1) \div 2) = WINDOW_N IN
    [w |-> [data |-> [i \in 1..WINDOW_N |->
                        ((w.data[i] * 16) % 256)
                        + (IF i < WINDOW_N THEN Hi(w.data[i + 1]) ELSE nibble)],
            len |-> IF filled THEN w.len ELSE w.len + 1],
     item |-> IF filled THEN Hi(w.data[1]) ELSE None]

\* Window::push_back: every nibble moves 4 bits to the left, the new one
\* comes in at the right; returns the nibble pushed out when it was full
Window_push_back(w, nibble) ==
    LET filled == (w.len \div 2) = WINDOW_N IN
    [w |-> [data |-> [i \in 1..WINDOW_N |->
                        ((w.data[i] * 16) % 256)
                        + (IF i < WINDOW_N THEN Hi(w.data[i + 1]) ELSE nibble)],
            len |-> IF filled THEN w.len ELSE w.len + 1],
     item |-> IF filled THEN Hi(w.data[1]) ELSE None]

\* Window::pop_front: the oldest nibble, get(len - 1).  With len = 0 the
\* subtraction underflows (a panic in a debug build, None in a release
\* build); the stream calls it with len >= 2 only.
Window_pop_front(w) ==
    [w |-> [w EXCEPT !.len = IF w.len > 0 THEN w.len - 1 ELSE 0],
     item |-> Window_get(w, w.len - 1)]

\* Window::pop_back: every nibble moves 4 bits to the right; returns the
\* most recent nibble, None when empty
Window_pop_back(w) ==
    [w |-> [data |-> [i \in 1..WINDOW_N |->
                        Hi(w.data[i])
                        + (IF i > 1 THEN (w.data[i - 1] * 16) % 256 ELSE 0)],
            len |-> IF w.len > 0 THEN w.len - 1 ELSE 0],
     item |-> IF w.len > 0 THEN Lo(w.data[WINDOW_N]) ELSE None]

---------------------------------------------------------------------------
(* stream.rs: OutputStream                                                 *)

OutputStream_new ==
    [state |-> "WaitingForFrame", frame |-> ZeroFrame, index |-> 0,
     window |-> Window_new]

\* OutputStream::send_frame
send_frame(o, f) ==
    [o EXCEPT !.state = "WritingFrame", !.frame = f, !.index = 0]

\* OutputStream::resend_frame
resend_frame(o) == [o EXCEPT !.state = "WaitingForFrame", !.index = 0]

\* OutputStream::waiting_for_frame: 0xf at an even index, 0x0 at an odd one
waiting_for_frame(o) ==
    [o |-> [o EXCEPT !.index = o.index + 1],
     item |-> IF o.index % 2 = 0 THEN \H0f ELSE \H00]

\* OutputStream::writing_frame.  The nibble at self.index goes into the
\* window (self.index is not advanced here); then the window is popped:
\* with exactly two nibbles in it and both equal, the newer one is
\* replaced by escape_code >> 4, escape_code & 0x0f and itself.
writing_frame(o) ==
    LET w1 == IF o.index \div 2 < FRAME_LEN
              THEN LET byte == o.frame[(o.index \div 2) + 1] IN
                   Window_push_back(o.window,
                       IF o.index % 2 = 0 THEN Hi(byte) ELSE Lo(byte)).w
              ELSE o.window
    IN
    IF w1.len > 2
    THEN LET r == Window_pop_front(w1) IN
         [o |-> [o EXCEPT !.window = r.w], item |-> r.item]
    ELSE IF w1.len = 2
    THEN LET higher == Window_get(w1, 1)
             lower == Window_get(w1, 0)
             escape_code == IF higher = Hi(Buffer1) THEN Buffer2
                            ELSE Hi(Buffer1)
             w2 == IF higher = lower
                   THEN Window_push_back(
                          Window_push_back(
                            Window_push_back(Window_pop_back(w1).w,
                                             Hi(escape_code)).w,
                            Lo(escape_code)).w,
                          lower).w
                   ELSE w1
             r == Window_pop_front(w2)
         IN [o |-> [o EXCEPT !.window = r.w], item |-> r.item]
    ELSE [o |-> [o EXCEPT !.window = w1], item |-> None]

\* OutputStream::next
OutputStream_next(o) ==
    IF o.state = "WaitingForFrame" THEN waiting_for_frame(o)
    ELSE LET r == writing_frame(o) IN
         IF r.item # None THEN r
         ELSE waiting_for_frame([r.o EXCEPT !.state = "WaitingForFrame"])

---------------------------------------------------------------------------
(* stream.rs: InputStream                                                  *)

\* a | b on four bits
RECURSIVE BitOr(_, _, _)
BitOr(a, b, bits) ==
    IF bits = 0 THEN 0
    ELSE (IF a % 2 = 1 \/ b % 2 = 1 THEN 1 ELSE 0)
         + 2 * BitOr(a \div 2, b \div 2, bits - 1)

DATA_LEN == FRAME_DATA_LEN + CHECKSUM_LEN

InputStream_new ==
    [state |-> "WaitingForFrame", window |-> 0, window_length |-> 0,
     data |-> [i \in 1..DATA_LEN |-> 0], data_index |-> 0]

\* Command::None and the commands without a payload
Cmd(kind) == [kind |-> kind, data |-> <<>>]
\* Command::Received(data)
Received(data) == [kind |-> "Received", data |-> data]

\* window_push that compares and shifts in the byte as it came, without
\* nibble & 0x0f
window_push_unmasked(i, nibble) ==
    LET previous_nibble == i.window % 16
    IN IF previous_nibble = nibble THEN [i |-> i, read |-> FALSE]
       ELSE [i |-> [i EXCEPT !.window = ((i.window * 16) % 65536) + nibble,
                             !.window_length = i.window_length + 1],
             read |-> i.window_length + 1 = 4]

\* InputStream::window_push: false when the line has not changed; else the
\* nibble is shifted into the window and the result says whether the
\* window now holds four nibbles
window_push(i, nibble) ==
    LET n == nibble % 16
        previous_nibble == i.window % 16
    IN IF previous_nibble = n THEN [i |-> i, read |-> FALSE]
       ELSE [i |-> [i EXCEPT !.window = ((i.window * 16) % 65536) + n,
                             !.window_length = i.window_length + 1],
             read |-> i.window_length + 1 = 4]

\* window_decode_value that leaves window_length as it is
window_decode_value_keepsLength(i) ==
    LET higher_byte == i.window \div 256
        lower_byte == i.window % 256
    IN IF from_byte(higher_byte) /\ higher_byte = lower_byte
       THEN [i |-> i, kind |-> "Byte", value |-> higher_byte]
       ELSE IF from_byte(higher_byte)
       THEN [i |-> i, kind |-> "EscapeCode", value |-> higher_byte]
       ELSE [i |-> i, kind |-> "Nibble", value |-> i.window \div 4096]

\* window_decode_value that keeps three nibbles after an escape code
window_decode_value_codeKeeps3(i) ==
    LET higher_byte == i.window \div 256
        lower_byte == i.window % 256
    IN IF from_byte(higher_byte) /\ higher_byte = lower_byte
       THEN [i |-> [i EXCEPT !.window_length = 0],
             kind |-> "Byte", value |-> higher_byte]
       ELSE IF from_byte(higher_byte)
       THEN [i |-> [i EXCEPT !.window_length = 3],
             kind |-> "EscapeCode", value |-> higher_byte]
       ELSE [i |-> [i EXCEPT !.window_length = 3],
             kind |-> "Nibble", value |-> i.window \div 4096]

\* InputStream::window_decode_value
window_decode_value(i) ==
    LET higher_byte == i.window \div 256
        lower_byte == i.window % 256
    IN IF from_byte(higher_byte) /\ higher_byte = lower_byte
       THEN [i |-> [i EXCEPT !.window_length = 0],
             kind |-> "Byte", value |-> higher_byte]
       ELSE IF from_byte(higher_byte)
       THEN [i |-> [i EXCEPT !.window_length = 2],
             kind |-> "EscapeCode", value |-> higher_byte]
       ELSE [i |-> [i EXCEPT !.window_length = 3],
             kind |-> "Nibble", value |-> i.window \div 4096]

\* waiting_for_frame that answers an EndOfFrame outside a frame with
\* ResendLastFrame
i_waiting_for_frame_eofResends(i, nibble) ==
    LET p == window_push(i, nibble) IN
    IF ~p.read THEN [i |-> p.i, cmd |-> Cmd("None"), panic |-> FALSE]
    ELSE LET d == window_decode_value(p.i) IN
         IF d.kind = "EscapeCode" /\ d.value = StartOfFrame
         THEN [i |-> [d.i EXCEPT !.state = "ReadingFrame"],
               cmd |-> Cmd("None"), panic |-> FALSE]
         ELSE [i |-> d.i,
               cmd |-> IF d.kind # "EscapeCode" THEN Cmd("None")
                       ELSE IF d.value = CorrectFrameData
                       THEN Cmd("SendNextFrame")
                       ELSE IF d.value \in {IncorrectFrameData, EndOfFrame}
                       THEN Cmd("ResendLastFrame")
                       ELSE IF d.value = FinishedSending
                       THEN Cmd("StopReceivingData")
                       ELSE Cmd("None"),
               panic |-> FALSE]

\* InputStream::waiting_for_frame
i_waiting_for_frame(i, nibble) ==
    LET p == window_push(i, nibble) IN
    IF ~p.read THEN [i |-> p.i, cmd |-> Cmd("None"), panic |-> FALSE]
    ELSE LET d == window_decode_value(p.i) IN
         IF d.kind = "EscapeCode" /\ d.value = StartOfFrame
         THEN [i |-> [d.i EXCEPT !.state = "ReadingFrame"],
               cmd |-> Cmd("None"), panic |-> FALSE]
         ELSE [i |-> d.i,
               cmd |-> IF d.kind # "EscapeCode" THEN Cmd("None")
                       ELSE IF d.value = CorrectFrameData
                       THEN Cmd("SendNextFrame")
                       ELSE IF d.value = IncorrectFrameData
                       THEN Cmd("ResendLastFrame")
                       ELSE IF d.value = FinishedSending
                       THEN Cmd("StopReceivingData")
                       ELSE Cmd("None"),
               panic |-> FALSE]

\* reading_frame with the length check of the EndOfFrame arm left out:
\* every EndOfFrame delivers the buffer
reading_frame_anyLength(i, nibble) ==
    LET p == window_push(i, nibble) IN
    IF ~p.read THEN [i |-> p.i, cmd |-> Cmd("None"), panic |-> FALSE]
    ELSE LET d == window_decode_value(p.i)
             cell == (d.i.data_index \div 2) + 1
         IN
         IF d.kind = "Nibble"
         THEN IF cell > DATA_LEN
              THEN [i |-> d.i, cmd |-> Cmd("None"), panic |-> TRUE]
              ELSE LET old == d.i.data[cell]
                       new == IF (1 + d.i.data_index) % 2 = 1
                              THEN 16 * BitOr(Hi(old), d.value, 4) + Lo(old)
                              ELSE 16 * Hi(old) + BitOr(Lo(old), d.value, 4)
                   IN [i |-> [d.i EXCEPT !.data[cell] = new,
                                         !.data_index = d.i.data_index + 1],
                       cmd |-> Cmd("None"), panic |-> FALSE]
         ELSE IF d.kind = "Byte"
         THEN IF cell > DATA_LEN
              THEN [i |-> d.i, cmd |-> Cmd("None"), panic |-> TRUE]
              ELSE [i |-> [d.i EXCEPT !.data[cell] = d.value,
                                      !.data_index = d.i.data_index + 2],
                    cmd |-> Cmd("None"), panic |-> FALSE]
         ELSE IF d.value = StartOfFrame /\ d.i.data_index # 0
              THEN [i |-> d.i, cmd |-> Cmd("ResendLastFrame"), panic |-> FALSE]
              ELSE IF d.value = EndOfFrame
              THEN [i |-> [d.i EXCEPT !.data_index = 0],
                    cmd |-> Received(d.i.data), panic |-> FALSE]
              ELSE [i |-> d.i,
                    cmd |-> IF d.value = CorrectFrameData
                            THEN Cmd("SendNextFrame")
                            ELSE IF d.value = IncorrectFrameData
                            THEN Cmd("ResendLastFrame")
                            ELSE IF d.value = FinishedSending
                            THEN Cmd("StopReceivingData")
                            ELSE Cmd("None"),
                    panic |-> FALSE]

\* InputStream::reading_frame.  A write to data[data_index / 2] beyond the
\* array is an index panic.
reading_frame(i, nibble) ==
    LET p == window_push(i, nibble) IN
    IF ~p.read THEN [i |-> p.i, cmd |-> Cmd("None"), panic |-> FALSE]
    ELSE LET d == window_decode_value(p.i)
             cell == (d.i.data_index \div 2) + 1
         IN
         IF d.kind = "Nibble"
         THEN IF cell > DATA_LEN
              THEN [i |-> d.i, cmd |-> Cmd("None"), panic |-> TRUE]
              ELSE LET old == d.i.data[cell]
                       new == IF (1 + d.i.data_index) % 2 = 1
                              THEN 16 * BitOr(Hi(old), d.value, 4) + Lo(old)
                              ELSE 16 * Hi(old) + BitOr(Lo(old), d.value, 4)
                   IN [i |-> [d.i EXCEPT !.data[cell] = new,
                                         !.data_index = d.i.data_index + 1],
                       cmd |-> Cmd("None"), panic |-> FALSE]
         ELSE IF d.kind = "Byte"
         THEN IF cell > DATA_LEN
              THEN [i |-> d.i, cmd |-> Cmd("None"), panic |-> TRUE]
              ELSE [i |-> [d.i EXCEPT !.data[cell] = d.value,
                                      !.data_index = d.i.data_index + 2],
                    cmd |-> Cmd("None"), panic |-> FALSE]
         ELSE \* an escape code; the state stays (is set to) ReadingFrame
              IF d.value = StartOfFrame /\ d.i.data_index # 0
              THEN [i |-> d.i, cmd |-> Cmd("ResendLastFrame"), panic |-> FALSE]
              ELSE IF d.value = EndOfFrame
              THEN [i |-> [d.i EXCEPT !.data_index = 0],
                    cmd |-> IF d.i.data_index \div 2 = DATA_LEN
                            THEN Received(d.i.data)
                            ELSE Cmd("ResendLastFrame"),
                    panic |-> FALSE]
              ELSE [i |-> d.i,
                    cmd |-> IF d.value = CorrectFrameData
                            THEN Cmd("SendNextFrame")
                            ELSE IF d.value = IncorrectFrameData
                            THEN Cmd("ResendLastFrame")
                            ELSE IF d.value = FinishedSending
                            THEN Cmd("StopReceivingData")
                            ELSE Cmd("None"),
                    panic |-> FALSE]

\* InputStream::push
push(i, nibble) ==
    IF i.state = "WaitingForFrame" THEN i_waiting_for_frame(i, nibble)
    ELSE reading_frame(i, nibble)

\* the driver ghost of the runs that use no wire
NoWire == [frames |-> <<>>, style |-> "none", fi |-> 0, pos |-> 0]

---------------------------------------------------------------------------
(* main.rs: the InputStream and OutputStream that main.rs defines itself   *)
(* and its Connection uses (main.rs does not use stream.rs).               *)

\* swap_nibbles, which main.rs imports from escape.rs and escape.rs does
\* not define: the two nibbles of a byte exchanged
swap_nibbles(byte) == 16 * Lo(byte) + Hi(byte)

m_InputStream_new ==
    [window |-> 0, window_length |-> 0, frame |-> ZeroFrame, frame_index |-> 0]

\* main.rs InputStream::push.  higher_byte is (window >> 4) as u8, the two
\* middle nibbles of the window.  main.rs calls the filler code
\* EscapeCode::Buffer (todo!()); escape.rs has it as Buffer1 and Buffer2.
m_push(i, nibble) ==
    LET n == nibble % 16 IN
    IF i.window % 16 = n THEN [i |-> i, cmd |-> Cmd("None"), panic |-> FALSE]
    ELSE
    LET window == ((i.window * 16) % 65536) + n
        i1 == [i EXCEPT !.window = window,
                        !.window_length = i.window_length + 1]
        higher_byte == (window \div 16) % 256
        lower_byte == window % 256
        \* the write that follows a Command::None
        store(j) ==
            IF j.frame_index >= FRAME_LEN
            THEN [i |-> j, cmd |-> Cmd("None"), panic |-> TRUE]
            ELSE [i |-> [j EXCEPT !.frame[j.frame_index + 1] = higher_byte,
                                  !.frame_index = j.frame_index + 1],
                  cmd |-> Cmd("None"), panic |-> FALSE]
        give(j, kind) == [i |-> j, cmd |-> Cmd(kind), panic |-> FALSE]
    IN
    IF i1.window_length < 4 THEN give(i1, "None")
    ELSE IF ~from_byte(higher_byte)
    THEN store([i1 EXCEPT !.window_length = 2])
    ELSE IF higher_byte = swap_nibbles(lower_byte)
    THEN store([i1 EXCEPT !.window_length = 0])
    ELSE
    LET i2 == [i1 EXCEPT !.window_length = 2] IN
    IF higher_byte = StartOfFrame /\ i2.frame_index # 0
    THEN give(i2, "ResendLastFrame")
    ELSE IF higher_byte = EndOfFrame /\ i2.frame_index # FRAME_LEN - 1
    THEN give(i2, "ResendLastFrame")
    ELSE IF higher_byte = StartOfFrame THEN store(i2)
    ELSE IF higher_byte = EndOfFrame
    THEN [i |-> [i2 EXCEPT !.frame[FRAME_LEN] = EndOfFrame, !.frame_index = 0],
          cmd |-> Received([i2.frame EXCEPT ![FRAME_LEN] = EndOfFrame]),
          panic |-> FALSE]
    ELSE IF higher_byte \in {Buffer1, Buffer2}
    THEN [i |-> i2, cmd |-> Cmd("None"), panic |-> TRUE]
    ELSE IF higher_byte = CorrectFrameData THEN give(i2, "SendNextFrame")
    ELSE IF higher_byte = IncorrectFrameData THEN give(i2, "ResendLastFrame")
    ELSE give(i2, "StopReceivingData")

\* main.rs OutputStream::new
m_OutputStream_new(f) == [frame |-> f, index |-> 0]

\* main.rs OutputStream::pull: the nibbles of the frame, high then low,
\* None once all 2 * FRAME_LEN have been pulled
m_pull(o) ==
    IF o.index >= FRAME_LEN * 2 THEN [o |-> o, item |-> None]
    ELSE LET byte == o.frame[(o.index \div 2) + 1] IN
         [o |-> [o EXCEPT !.index = o.index + 1],
          item |-> IF o.index % 2 = 0 THEN Hi(byte) ELSE Lo(byte)]

\* main.rs OutputStream::reset
m_reset(o) == [o EXCEPT !.index = 0]

---------------------------------------------------------------------------
(* main.rs: Connection                                                     *)

\* Connection::new: the first frame is built at once
Connection_new(bytes) ==
    LET r == encode_frame(Escaped_new(bytes)) IN
    [i_stream |-> m_InputStream_new,
     o_stream |-> m_OutputStream_new(r.frame),
     data |-> r.e,
     done_receiving |-> FALSE]

\* the value poll returns: !(self.data.is_done() && self.done_receiving)
poll_result(c) == ~(is_done(c.data) /\ c.done_receiving)

\* a match whose ResendLastFrame arm builds a frame from the source, as
\* the SendNextFrame arm does, in place of o_stream.reset()
poll_match_resendBuilds(c, sent, r, e) ==
    IF r.panic
    THEN [c |-> c, sent |-> sent, written |-> <<>>, panic |-> TRUE]
    ELSE IF r.cmd.kind = "Received"
    THEN [c |-> c, sent |-> sent, written |-> decode_frame(r.cmd.data),
          panic |-> FALSE]
    ELSE IF r.cmd.kind \in {"SendNextFrame", "ResendLastFrame"}
    THEN [c |-> [c EXCEPT !.o_stream = m_OutputStream_new(e.frame),
                          !.data = e.e],
          sent |-> sent, written |-> <<>>, panic |-> e.panic]
    ELSE IF r.cmd.kind = "StopReceivingData"
    THEN [c |-> [c EXCEPT !.done_receiving = TRUE],
          sent |-> sent, written |-> <<>>, panic |-> FALSE]
    ELSE [c |-> c, sent |-> sent, written |-> <<>>, panic |-> FALSE]

\* the match on the Command r.cmd in Connection::poll: c is the Connection
\* after pull and push, sent the nibble passed to device.send (None: no
\* call), e the result of encode_frame on c.data, used by SendNextFrame.
\* written is what goes to stdout.
poll_match(c, sent, r, e) ==
    IF r.panic
    THEN [c |-> c, sent |-> sent, written |-> <<>>, panic |-> TRUE]
    ELSE IF r.cmd.kind = "Received"
    THEN [c |-> c, sent |-> sent, written |-> decode_frame(r.cmd.data),
          panic |-> FALSE]
    ELSE IF r.cmd.kind = "SendNextFrame"
    THEN [c |-> [c EXCEPT !.o_stream = m_OutputStream_new(e.frame),
                          !.data = e.e],
          sent |-> sent, written |-> <<>>, panic |-> e.panic]
    ELSE IF r.cmd.kind = "ResendLastFrame"
    THEN [c |-> [c EXCEPT !.o_stream = m_reset(c.o_stream)],
          sent |-> sent, written |-> <<>>, panic |-> FALSE]
    ELSE IF r.cmd.kind = "StopReceivingData"
    THEN [c |-> [c EXCEPT !.done_receiving = TRUE],
          sent |-> sent, written |-> <<>>, panic |-> FALSE]
    ELSE [c |-> c, sent |-> sent, written |-> <<>>, panic |-> FALSE]

\* o is the result of o_stream.pull(), r that of i_stream.push(read())
poll_pulled(c, o, r) ==
    poll_match([c EXCEPT !.o_stream = o.o, !.i_stream = r.i], o.item, r,
               encode_frame(c.data))

\* Connection::poll up to device.debug_poll(), with nibble_in what
\* device.read() returns
Connection_poll(c, nibble_in) ==
    poll_pulled(c, m_pull(c.o_stream), m_push(c.i_stream, nibble_in))

---------------------------------------------------------------------------
(* device.rs: DebugDevice and MirrorDevice                                 *)

\* DebugDevice::new: the other side is a Connection on a MirrorDevice with
\* an empty source; MirrorDevice::new has incoming = outgoing = 0
DebugDevice_new ==
    [other_side |-> Connection_new(<<>>), incoming |-> 0, outgoing |-> 0]

\* DebugDevice::send(nibble) when poll called it (sent # None): the other
\* side's MirrorDevice gets it as incoming
DebugDevice_send(d, sent) ==
    IF sent # None THEN [d EXCEPT !.incoming = sent] ELSE d

\* DebugDevice::debug_poll after this side's part a of the poll: the other
\* side is polled (b: its part of the poll, its MirrorDevice reading
\* incoming), and what it sends becomes outgoing.  A panic of this side
\* comes before debug_poll.
debug_poll(a, d, b) ==
    IF a.panic
    THEN [c |-> a.c, d |-> d,
          wrote |-> a.written, other_wrote |-> <<>>, panic |-> TRUE]
    ELSE [c |-> a.c,
          d |-> [other_side |-> b.c, incoming |-> d.incoming,
                 outgoing |-> IF b.sent # None THEN b.sent ELSE d.outgoing],
          wrote |-> a.written, other_wrote |-> b.written, panic |-> b.panic]

\* the device's part of a poll once this side's part a has sent: d is
\* the device after send
Loopback_other(a, d) ==
    debug_poll(a, d, Connection_poll(d.other_side, d.incoming))

\* this side's part a of a poll, its send applied to the device
Loopback_send(a, d) == Loopback_other(a, DebugDevice_send(d, a.sent))

\* a poll on a device whose read() returns its own incoming nibble, not
\* the other side's outgoing one
Loopback_poll_readsIncoming(c, d) ==
    Loopback_send(Connection_poll(c, d.incoming), d)

\* one poll() of a Connection on a DebugDevice d.  send writes the other
\* side's incoming, read returns its outgoing (as it was before
\* debug_poll), debug_poll polls the other side.
Loopback_poll(c, d) ==
    Loopback_send(Connection_poll(c, d.outgoing), d)

\* the state of the runs without a Connection
NoConnection ==
    /\ connection = Connection_new(<<>>)
    /\ device = DebugDevice_new
    /\ sink = [here |-> <<>>, other_side |-> <<>>]
    /\ returned = "none"
    /\ polls = 0

---------------------------------------------------------------------------
(* The escape encoder and the packer on their own: any source, any         *)
(* interleaving of Escaped::next and encode_frame calls.                   *)

InitPack ==
    /\ source \in SeqsUpTo(Items, MaxSrcLen)
    /\ escaped = Escaped_new(source)
    /\ yielded = <<>>
    /\ pre = Escaped_new(source)
    /\ post = Escaped_new(source)
    /\ frame = <<>>
    /\ panicked = FALSE
    /\ o_stream = OutputStream_new
    /\ emitted = <<>>
    /\ i_stream = InputStream_new
    /\ log = <<>>
    /\ wire = NoWire
    /\ NoConnection

\* one call of Escaped::next
EscapedNext ==
    /\ ~panicked
    /\ LET r == Escaped_next(escaped) IN
       /\ escaped' = r.e
       /\ yielded' = IF r.item = None THEN yielded ELSE Append(yielded, r.item)
    /\ UNCHANGED <<source, pre, post, frame, panicked, outVars, inVars, connVars>>

\* one call of encode_frame(&mut escaped)
EncodeFrame ==
    /\ ~panicked
    /\ LET r == encode_frame(escaped) IN
       /\ escaped' = r.e
       /\ post' = r.e
       /\ yielded' = yielded \o r.got
       /\ frame' = IF r.panic THEN <<>> ELSE r.frame
       /\ panicked' = r.panic
    /\ pre' = escaped
    /\ UNCHANGED <<source, outVars, inVars, connVars>>

NextPack == EscapedNext \/ EncodeFrame

SpecPack == InitPack /\ [][NextPack]_vars

---------------------------------------------------------------------------
(* Claims about the escape encoder and the packer (SpecPack).              *)

\* what doubling the values of `codes` makes of a sequence of items
RECURSIVE Doubling(_, _)
Doubling(s, codes) ==
    IF s = <<>> THEN <<>>
    ELSE (IF Head(s) \in codes THEN <<Head(s), Head(s)>> ELSE <<Head(s)>>)
         \o Doubling(Tail(s), codes)

\* the six control bytes of the wire format
SixCodes == {\H12, \H23, \H34, \H45, \H56, \H67}
\* the seven values of the table in escape.rs, Buffer2 = 0x65 among them
SevenCodes == {\H12, \H23, \H34, \H45, \H56, \H65, \H67}

C7_DoneIffSourceEnded == is_done(escaped) <=> escaped.src_none

\* the bytes an Escaped has still to yield
Rest(e) ==
    (IF e.escape # None THEN <<e.escape>> ELSE <<>>)
    \o Doubling(e.bytes, SevenCodes)

\* the number of bytes the last encode_frame call took from the source
Taken == Len(Rest(pre)) - Len(Rest(post))

\* C8: a frame returned by encode_frame has SOF in its first and EOF in its
\* last cell; its data cells hold the next k <= FRAME_DATA_LEN bytes of the
\* escaped source in order, then zeros; the call consumed exactly those k
\* bytes, and k < FRAME_DATA_LEN only if the source ended.
C8_FramePacked ==
    frame # <<>> =>
        /\ Len(frame) = FRAME_LEN
        /\ frame[1] = \H12
        /\ frame[FRAME_LEN] = \H23
        /\ Taken \in 0..FRAME_DATA_LEN
        /\ Rest(post) = SubSeq(Rest(pre), Taken + 1, Len(Rest(pre)))
        /\ \A i \in 1..FRAME_DATA_LEN :
              frame[1 + i] = IF i <= Taken THEN Rest(pre)[i] ELSE 0
        /\ Taken < FRAME_DATA_LEN => (Rest(post) = <<>> /\ post.src_none)

\* a short read: the source ended after one byte, the other cells are zero
C8_Witness ==
    /\ frame # <<>>
    /\ Taken = 1
    /\ frame[2] # 0
    /\ frame[1 + FRAME_DATA_LEN] = 0
    /\ post.src_none

---------------------------------------------------------------------------
(* The OutputStream of stream.rs on its own: any sequence of send_frame,   *)
(* resend_frame and next calls, the frames built by the packer.            *)

\* the frames encode_frame builds from the sources of at most one frame
PackerFrames ==
    {encode_frame(Escaped_new(s)).frame : s \in SeqsUpTo(Bytes, FRAME_DATA_LEN)}

InitOut ==
    /\ source = <<>>
    /\ escaped = Escaped_new(<<>>)
    /\ yielded = <<>>
    /\ pre = Escaped_new(<<>>)
    /\ post = Escaped_new(<<>>)
    /\ frame = <<>>
    /\ panicked = FALSE
    /\ o_stream = OutputStream_new
    /\ emitted = <<>>
    /\ i_stream = InputStream_new
    /\ log = <<>>
    /\ wire = NoWire
    /\ NoConnection

SendFrame ==
    /\ \E f \in PackerFrames : o_stream' = send_frame(o_stream, f)
    /\ UNCHANGED <<packVars, panicked, emitted, inVars, connVars>>

ResendFrame ==
    /\ o_stream' = resend_frame(o_stream)
    /\ UNCHANGED <<packVars, panicked, emitted, inVars, connVars>>

OutNext ==
    /\ Len(emitted) < MaxNext
    /\ LET r == OutputStream_next(o_stream) IN
       /\ o_stream' = r.o
       /\ emitted' = Append(emitted, r.item)
    /\ UNCHANGED <<packVars, panicked, inVars, connVars>>

NextOut == SendFrame \/ ResendFrame \/ OutNext

SpecOut == InitOut /\ [][NextOut]_vars

\* C1: any two nibbles returned by consecutive next() calls differ, also
\* across idle->frame, frame->idle and after a resend.
C1_AdjacentDiffer ==
    \A i \in 1..(Len(emitted) - 1) : emitted[i] # emitted[i + 1]

---------------------------------------------------------------------------
(* Frames on a wire into the InputStream of stream.rs.  A wire carries one *)
(* or more packer-built frames, each with IdleBytes bytes of 0xf0 before   *)
(* and after it.  Style "tests" is the wire of use_input_stream: per byte  *)
(* the high nibble, a Buffer pair if both nibbles are equal, the low       *)
(* nibble, a Buffer pair.  Style "plain" is the wire format with a Buffer  *)
(* pair only between two equal neighbours.                                 *)

\* the pushes of use_input_stream for one byte
TestsByte(byte) ==
    <<Hi(byte)>>
    \o (IF Hi(byte) = Lo(byte) THEN <<Hi(Buffer1), Buffer1>> ELSE <<>>)
    \o <<Lo(byte), Hi(Buffer1), Buffer1>>

RECURSIVE TestsWire(_)
TestsWire(bytes) ==
    IF bytes = <<>> THEN <<>>
    ELSE TestsByte(Head(bytes)) \o TestsWire(Tail(bytes))

RECURSIVE Nibbles(_)
Nibbles(bytes) ==
    IF bytes = <<>> THEN <<>>
    ELSE <<Hi(Head(bytes)), Lo(Head(bytes))>> \o Nibbles(Tail(bytes))

RECURSIVE PlainWire(_, _)
PlainWire(nibbles, last) ==
    IF nibbles = <<>> THEN <<>>
    ELSE (IF Head(nibbles) = last THEN <<Hi(Buffer1), Lo(Buffer1)>> ELSE <<>>)
         \o <<Head(nibbles)>> \o PlainWire(Tail(nibbles), Head(nibbles))

Idle == [i \in 1..IdleBytes |-> \Hf0]

\* the nibbles pushed for one frame
WireOf(style, f) ==
    IF style = "tests" THEN TestsWire(Idle \o f \o Idle)
    ELSE PlainWire(Nibbles(Idle \o f \o Idle), None)

InitWire ==
    /\ source = <<>>
    /\ escaped = Escaped_new(<<>>)
    /\ yielded = <<>>
    /\ pre = Escaped_new(<<>>)
    /\ post = Escaped_new(<<>>)
    /\ frame = <<>>
    /\ panicked = FALSE
    /\ o_stream = OutputStream_new
    /\ emitted = <<>>
    /\ NoConnection
    /\ i_stream = InputStream_new
    /\ log = <<>>
    /\ \E fs \in SeqsUpTo(PackerFrames, MaxFrames) \ {<<>>},
          st \in {"tests", "plain"} :
          wire = [frames |-> fs, style |-> st, fi |-> 1, pos |-> 0]

\* the next nibble of the wire is pushed into the InputStream
WirePush ==
    /\ ~panicked
    /\ wire.fi <= Len(wire.frames)
    /\ LET w == WireOf(wire.style, wire.frames[wire.fi])
           r == push(i_stream, w[wire.pos + 1])
       IN /\ i_stream' = r.i
          /\ panicked' = r.panic
          /\ log' = IF r.cmd.kind = "None" THEN log
                    ELSE Append(log, [frame |-> wire.fi, cmd |-> r.cmd])
          /\ wire' = IF wire.pos + 1 = Len(w)
                     THEN [wire EXCEPT !.fi = wire.fi + 1, !.pos = 0]
                     ELSE [wire EXCEPT !.pos = wire.pos + 1]
    /\ UNCHANGED <<packVars, outVars, connVars>>

NextWire == WirePush

SpecWire == InitWire /\ [][NextWire]_vars

\* the data region frame number j of the wire was built with
Payload(j) == decode_frame(wire.frames[j])

\* C4: on a wire that carries well-formed frames one after another with
\* idle between them, every Received(data) carries exactly the payload of
\* the frame in transmission (the second and later ones no residue of an
\* earlier frame), and a frame that is not delivered is answered by
\* ResendLastFrame.
C4_NoSilentLoss ==
    /\ \A k \in 1..Len(log) :
          log[k].cmd.kind = "Received" => log[k].cmd.data = Payload(log[k].frame)
    /\ \A j \in 1..Len(wire.frames) :
          j < wire.fi =>
             \E k \in 1..Len(log) :
                /\ log[k].frame = j
                /\ log[k].cmd.kind \in {"Received", "ResendLastFrame"}

\* the data cells j, j+1 of frame f hold an escape-code value twice
PairAt(f, j) ==
    /\ j < FRAME_DATA_LEN
    /\ f[1 + j] \in SevenCodes
    /\ f[2 + j] = f[1 + j]
    /\ \A h \in 1..(j - 1) : f[1 + h] \notin SevenCodes

\* C5: a frame whose payload carries a user byte equal to an escape code
\* as that byte twice is, once it has gone over the wire into a fresh
\* InputStream, delivered by Received with the one literal byte in its
\* place (the pair neither ends the frame nor is taken for a control code).
C5_EscapeInData ==
    \A j \in 1..FRAME_DATA_LEN :
        (wire.style # "none" /\ wire.fi > 1 /\ PairAt(wire.frames[1], j)) =>
            \E k \in 1..Len(log) :
                /\ log[k].frame = 1
                /\ log[k].cmd.kind = "Received"
                /\ log[k].cmd.data[j] = wire.frames[1][1 + j]
                /\ \A h \in 1..(k - 1) : log[h].frame # 1

---------------------------------------------------------------------------
(* The OutputStream of stream.rs with its calls logged: log holds, per     *)
(* call, the call, the frame passed (send_frame), the nibble returned      *)
(* (next), whether writing_frame or waiting_for_frame gave that nibble,    *)
(* and the frame nibble the call took from the frame into the window.      *)

Call(call, f, item, from, took) ==
    [call |-> call, frame |-> f, item |-> item, from |-> from, took |-> took]

\* the send_frame calls of a log
Sends(l) == {k \in 1..Len(l) : l[k].call = "send_frame"}

InitCalls ==
    /\ source = <<>>
    /\ escaped = Escaped_new(<<>>)
    /\ yielded = <<>>
    /\ pre = Escaped_new(<<>>)
    /\ post = Escaped_new(<<>>)
    /\ frame = <<>>
    /\ panicked = FALSE
    /\ o_stream = OutputStream_new
    /\ emitted = <<>>
    /\ i_stream = InputStream_new
    /\ log = <<>>
    /\ wire = NoWire
    /\ NoConnection

CallSendFrame ==
    /\ Len(log) < MaxCalls
    /\ Cardinality(Sends(log)) < MaxSends
    /\ \E f \in PackerFrames :
          /\ o_stream' = send_frame(o_stream, f)
          /\ log' = Append(log, Call("send_frame", f, None, "", None))
    /\ UNCHANGED <<packVars, panicked, emitted, i_stream, wire, connVars>>

CallResendFrame ==
    /\ Len(log) < MaxCalls
    /\ o_stream' = resend_frame(o_stream)
    /\ log' = Append(log, Call("resend_frame", <<>>, None, "", None))
    /\ UNCHANGED <<packVars, panicked, emitted, i_stream, wire, connVars>>

\* the frame nibble a next() call reads at self.index (stream.rs:361-368)
Took(o) ==
    IF o.state = "WritingFrame" /\ o.index \div 2 < FRAME_LEN
    THEN LET byte == o.frame[(o.index \div 2) + 1] IN
         IF o.index % 2 = 0 THEN Hi(byte) ELSE Lo(byte)
    ELSE None

\* the next() call with result r on the stream o
Called(o, r) ==
    /\ o_stream' = r.o
    /\ emitted' = Append(emitted, r.item)
    /\ log' = Append(log,
                Call("next", <<>>, r.item,
                     IF o.state = "WritingFrame" /\ r.o.state = "WritingFrame"
                     THEN "frame" ELSE "idle",
                     Took(o)))

CallNext ==
    /\ Len(log) < MaxCalls
    /\ Called(o_stream, OutputStream_next(o_stream))
    /\ UNCHANGED <<packVars, panicked, i_stream, wire, connVars>>

NextCalls == CallSendFrame \/ CallResendFrame \/ CallNext

SpecCalls == InitCalls /\ [][NextCalls]_vars

\* the last send_frame or resend_frame call of a log (0: none)
LastArm(l) ==
    LET S == {k \in 1..Len(l) : l[k].call # "next"} IN
    IF S = {} THEN 0 ELSE CHOOSE k \in S : \A h \in S : h <= k

\* the next() calls of l after position p, in order
RECURSIVE NextsAfter(_, _)
NextsAfter(l, p) ==
    IF p >= Len(l) THEN <<>>
    ELSE (IF l[p + 1].call = "next" THEN <<l[p + 1]>> ELSE <<>>)
         \o NextsAfter(l, p + 1)

\* the nibbles writing_frame gave, of a sequence of next() calls
RECURSIVE FrameItems(_)
FrameItems(c) ==
    IF c = <<>> THEN <<>>
    ELSE (IF Head(c).from = "frame" THEN <<Head(c).item>> ELSE <<>>)
         \o FrameItems(Tail(c))

\* the frame nibbles taken, of a sequence of next() calls
RECURSIVE TookItems(_)
TookItems(c) ==
    IF c = <<>> THEN <<>>
    ELSE (IF Head(c).took # None THEN <<Head(c).took>> ELSE <<>>)
         \o TookItems(Tail(c))

\* the frame armed by the last send_frame before position p of l
ArmedAt(l, p) ==
    LET S == {k \in Sends(l) : k < p} IN
    l[CHOOSE k \in S : \A h \in S : h <= k].frame

\* C11: resend_frame() leaves the armed frame unchanged and the next()
\* calls that follow emit that frame again from its first nibble: the
\* first next() after a resend_frame of an armed stream returns the high
\* nibble of the frame's first byte.
C11_ResendEmitsFrame ==
    LET p == LastArm(log)
        n == NextsAfter(log, p)
    IN (p > 0 /\ log[p].call = "resend_frame"
          /\ \E k \in Sends(log) : k < p) =>
         /\ o_stream.frame = ArmedAt(log, p)
         /\ n # <<>> => n[1].item = Hi(ArmedAt(log, p)[1])

\* a sequence of emitted nibbles without the pairs 5,6 that stand between
\* two equal nibbles
RECURSIVE Unbuffer(_, _)
Unbuffer(s, last) ==
    IF s = <<>> THEN <<>>
    ELSE IF Len(s) >= 3 /\ s[1] = 5 /\ s[2] = 6 /\ s[3] = last
    THEN Unbuffer(SubSeq(s, 3, Len(s)), last)
    ELSE <<s[1]>> \o Unbuffer(Tail(s), s[1])

\* C18: after send_frame(f) the nibbles next() returns from the frame are,
\* without the inserted Buffer nibbles, the 2*FRAME_LEN nibbles of f in
\* order, high nibble first, and the stream is back in WaitingForFrame only
\* after the last of them.
C18_FrameEmitted ==
    LET p == LastArm(log)
        w == Unbuffer(FrameItems(NextsAfter(log, p)), None)
    IN (p > 0 /\ log[p].call = "send_frame") =>
         /\ IsPrefix(w, Nibbles(log[p].frame))
         /\ o_stream.state = "WaitingForFrame" => w = Nibbles(log[p].frame)

\* C19: the nibbles the stream emits from its frame are the frame nibbles
\* it took, with the two nibbles 5, 6 between two equal neighbours and
\* nothing between two that differ.
C19_BufferInserted ==
    LET n == NextsAfter(log, 0) IN
    IsPrefix(FrameItems(n), PlainWire(TookItems(n), None))

\* C20: the nibbles next() returns in WaitingForFrame are 0xF and 0x0 only
\* and alternate strictly from one such call to the next, whatever
\* send_frame and resend_frame calls come between them.
C20_IdleAlternates ==
    LET n == NextsAfter(log, 0) IN
    \A k \in 1..Len(n) :
        n[k].from = "idle" =>
            /\ n[k].item \in {\H0f, \H00}
            /\ (k > 1 /\ n[k - 1].from = "idle") => n[k].item # n[k - 1].item

---------------------------------------------------------------------------
(* A line into a fresh InputStream of stream.rs: wire.nibbles is the whole *)
(* nibble sequence, pushed one by one; wire.frames are the well-formed     *)
(* frames it carries.                                                      *)

\* the nibbles of a byte sequence on the wire
LineOf(style, bytes) ==
    IF style = "tests" THEN TestsWire(bytes)
    ELSE PlainWire(Nibbles(bytes), None)

IdleOf(n) == [i \in 1..n |-> \Hf0]

Line(style, frames, nibbles) ==
    [frames |-> frames, style |-> style, fi |-> 1, pos |-> 0,
     nibbles |-> nibbles]

\* the state before the first push, the line apart
InitLine ==
    /\ source = <<>>
    /\ escaped = Escaped_new(<<>>)
    /\ yielded = <<>>
    /\ pre = Escaped_new(<<>>)
    /\ post = Escaped_new(<<>>)
    /\ frame = <<>>
    /\ panicked = FALSE
    /\ o_stream = OutputStream_new
    /\ emitted = <<>>
    /\ NoConnection
    /\ i_stream = InputStream_new
    /\ log = <<>>

\* the result r of pushing the next nibble of the line
Pushed(r) ==
    /\ i_stream' = r.i
    /\ panicked' = r.panic
    /\ log' = IF r.cmd.kind = "None" THEN log
              ELSE Append(log, [frame |-> wire.fi, cmd |-> r.cmd])

LinePush ==
    /\ ~panicked
    /\ wire.pos < Len(wire.nibbles)
    /\ Pushed(push(i_stream, wire.nibbles[wire.pos + 1]))
    /\ wire' = [wire EXCEPT !.pos = wire.pos + 1]
    /\ UNCHANGED <<packVars, outVars, connVars>>

\* every nibble of the line has been pushed
LineDone == wire.pos = Len(wire.nibbles)

\* the Received commands of a log
Receiveds(l) == {k \in 1..Len(l) : l[k].cmd.kind = "Received"}

\* the packer's frames whose data holds no escape-code value
CleanFrames ==
    {f \in PackerFrames : \A j \in 1..FRAME_DATA_LEN : f[1 + j] \notin VALUES}

---------------------------------------------------------------------------
(* A frame cut short, then a well-formed frame: idle, SOF and the first    *)
(* bytes of a frame, and at once a whole frame and idle.                   *)

InitCut ==
    /\ InitLine
    /\ \E c \in CleanFrames, k \in 2..(FRAME_LEN - 1), f \in CleanFrames,
          st \in {"tests", "plain"}, n \in 1..MaxIdle :
          wire = Line(st, <<f>>,
                      LineOf(st, IdleOf(n) \o SubSeq(c, 1, k) \o f \o IdleOf(n)))

NextCut == LinePush

SpecCut == InitCut /\ [][NextCut]_vars

\* C12: a StartOfFrame decoded in ReadingFrame with data already written
\* is answered by ResendLastFrame, and the frame in progress is abandoned:
\* the well-formed frame that follows is decoded from data_index 0 and
\* delivered by Received with its own data.  (A panic ends the run.)
C12_SofMidFrame ==
    (LineDone \/ panicked) =>
        /\ ~panicked
        /\ log # <<>>
        /\ log[1].cmd.kind = "ResendLastFrame"
        /\ \E k \in Receiveds(log) : log[k].cmd.data = Payload(1)

---------------------------------------------------------------------------
(* Any nibbles pushed into a fresh InputStream of stream.rs: the nibbles   *)
(* of SOF (1,2) and EOF (2,3), which are data nibbles as well.             *)

PushNibbles == {1, 2, 3}

\* pushes enough for a whole frame, and PushSlack more
MaxPushes == 2 * DATA_LEN + PushSlack

InitPush ==
    /\ InitLine
    /\ wire = Line("free", <<>>, <<>>)

PushNibble ==
    /\ ~panicked
    /\ wire.pos < MaxPushes
    /\ \E n \in PushNibbles : Pushed(push(i_stream, n))
    /\ wire' = [wire EXCEPT !.pos = wire.pos + 1]
    /\ UNCHANGED <<packVars, outVars, connVars>>

NextPush == PushNibble

SpecPush == InitPush /\ [][NextPush]_vars

\* the push of this step completes the window 0x23,x in ReadingFrame:
\* EndOfFrame is decoded (0x23,0x23 is the data byte 0x23)
EofDecoded ==
    /\ i_stream.state = "ReadingFrame"
    /\ i_stream.window_length = 3
    /\ i_stream'.window # i_stream.window
    /\ i_stream'.window \div 256 = EndOfFrame
    /\ i_stream'.window % 256 # EndOfFrame

\* C13: when EndOfFrame is decoded in ReadingFrame, push returns
\* Received(data) if and only if data_index / 2 is the length of the data
\* buffer, and ResendLastFrame otherwise; either way data_index becomes 0;
\* and no other push returns Received.
C13_EofLengthCheck ==
    [][/\ EofDecoded =>
            /\ i_stream'.data_index = 0
            /\ log' = Append(log,
                  [frame |-> wire.fi,
                   cmd |-> IF i_stream.data_index \div 2 = Len(i_stream.data)
                           THEN Received(i_stream.data)
                           ELSE Cmd("ResendLastFrame")])
       /\ (log' # log /\ log'[Len(log')].cmd.kind = "Received")
              => EofDecoded]_vars

\* both outcomes of an EndOfFrame have happened: a frame of the right
\* length was delivered and one of a wrong length was refused
C13_Witness ==
    /\ Receiveds(log) # {}
    /\ \E k \in 1..Len(log) : log[k].cmd.kind = "ResendLastFrame"
    /\ i_stream.data_index = 0

\* C26: whatever nibbles are pushed into an InputStream (a frame that is
\* too long, one without EOF, a StartOfFrame inside a frame), data_index
\* stays within the data buffer and no push aborts.
C26_BufferBounds ==
    /\ ~panicked
    /\ i_stream.data_index \div 2 <= Len(i_stream.data)

---------------------------------------------------------------------------
(* One packer-built frame on the wire of the tests, with any number of     *)
(* idle bytes 0xf0 up to MaxIdle before it and after it.                   *)

InitIdle ==
    /\ InitLine
    /\ \E f \in PackerFrames, lead \in 0..MaxIdle, trail \in 0..MaxIdle :
          wire = Line("tests", <<f>>,
                      LineOf("tests", IdleOf(lead) \o f \o IdleOf(trail)))

NextIdle == LinePush

SpecIdle == InitIdle /\ [][NextIdle]_vars

\* C14: a packer-built frame pushed as the tests push it, with idle
\* stretches of any length before and after it, yields exactly one
\* Received, whose data is the frame's data region.  (A panic ends the
\* run.)
C14_EdgeImmunity ==
    (LineDone \/ panicked) =>
        /\ ~panicked
        /\ Cardinality(Receiveds(log)) = 1
        /\ \A k \in Receiveds(log) : log[k].cmd.data = Payload(1)

---------------------------------------------------------------------------
(* One frame whose data has equal neighbouring nibbles, with the Buffer    *)
(* pair 5,6 between them ("plain") or as the tests insert it ("tests").    *)

\* data bytes with equal nibbles: 0, 6, and one without
BufBytes == {\H00, \H66, \Ha0}

BufFrames ==
    {<<StartOfFrame>> \o d \o <<EndOfFrame>> :
        d \in SeqsOfLen(BufBytes, FRAME_DATA_LEN)}

InitBuf ==
    /\ InitLine
    /\ \E f \in BufFrames, st \in {"tests", "plain"}, n \in 1..MaxIdle :
          wire = Line(st, <<f>>, LineOf(st, IdleOf(n) \o f \o Idle))

NextBuf == LinePush

SpecBuf == InitBuf /\ [][NextBuf]_vars

\* C15: Buffer pairs 5,6 between equal data nibbles of a frame do not
\* change the data Received returns: the frame is delivered with every
\* data nibble at its own position.  (A panic ends the run.)
C15_BufferTransparent ==
    (LineDone \/ panicked) =>
        \E k \in Receiveds(log) : log[k].cmd.data = Payload(1)

---------------------------------------------------------------------------
(* The round trip: source -> Escaped -> encode_frame -> OutputStream::next *)
(* -> (perfect wire) -> InputStream::push.  A frame is built and sent      *)
(* while the escaped source has bytes left and the OutputStream is back in *)
(* WaitingForFrame; every nibble next() returns is pushed.  wire.pos counts *)
(* the next() calls since the last send_frame, wire.idle those of them     *)
(* that the OutputStream answered in (or by going back to) WaitingForFrame.*)

\* most next() calls after one send_frame: room for every nibble of the
\* frame, a Buffer pair after each, and the drain
MaxTicks == 6 * FRAME_LEN + DrainTicks

InitRT ==
    /\ source \in {s \in SeqsUpTo(Bytes, MaxSrcLen) : Len(s) % FRAME_DATA_LEN = 0}
    /\ escaped = Escaped_new(source)
    /\ yielded = <<>>
    /\ pre = Escaped_new(source)
    /\ post = Escaped_new(source)
    /\ frame = <<>>
    /\ panicked = FALSE
    /\ o_stream = OutputStream_new
    /\ emitted = <<>>
    /\ NoConnection
    /\ i_stream = InputStream_new
    /\ log = <<>>
    /\ wire = [frames |-> <<>>, style |-> "stream", fi |-> 0, pos |-> 0,
               idle |-> 0]

\* encode_frame, then send_frame
RTSend ==
    /\ ~panicked
    /\ o_stream.state = "WaitingForFrame"
    /\ Rest(escaped) # <<>>
    /\ LET r == encode_frame(escaped) IN
       /\ escaped' = r.e
       /\ post' = r.e
       /\ yielded' = yielded \o r.got
       /\ frame' = r.frame
       /\ o_stream' = send_frame(o_stream, r.frame)
       /\ wire' = [wire EXCEPT !.frames = Append(wire.frames, r.frame),
                               !.fi = wire.fi + 1, !.pos = 0, !.idle = 0]
    /\ pre' = escaped
    /\ UNCHANGED <<source, panicked, emitted, i_stream, log, connVars>>

\* one nibble from OutputStream::next into InputStream::push
RTStep ==
    /\ ~panicked
    /\ wire.pos < MaxTicks
    /\ wire.idle < DrainTicks
    /\ LET o == OutputStream_next(o_stream)
           r == push(i_stream, o.item)
       IN /\ o_stream' = o.o
          /\ emitted' = Append(emitted, o.item)
          /\ i_stream' = r.i
          /\ panicked' = r.panic
          /\ log' = IF r.cmd.kind = "None" THEN log
                    ELSE Append(log, [frame |-> wire.fi, cmd |-> r.cmd])
          /\ wire' = [wire EXCEPT !.pos = wire.pos + 1,
                                  !.idle = IF o.o.state = "WaitingForFrame"
                                           THEN wire.idle + 1 ELSE 0]
    /\ UNCHANGED <<packVars, connVars>>

NextRT == RTSend \/ RTStep

SpecRT == InitRT /\ [][NextRT]_vars

\* the payloads of the Received commands so far, concatenated
RECURSIVE ReceivedBytes(_)
ReceivedBytes(l) ==
    IF l = <<>> THEN <<>>
    ELSE (IF Head(l).cmd.kind = "Received" THEN Head(l).cmd.data ELSE <<>>)
         \o ReceivedBytes(Tail(l))

\* every byte of the source has been packed and sent, the OutputStream has
\* finished the last frame and idled for DrainTicks nibbles
RTComplete ==
    /\ Rest(escaped) = <<>>
    /\ o_stream.state = "WaitingForFrame"
    /\ wire.idle >= DrainTicks

\* C2: for a source S of a whole number of frames, the payloads Received
\* at the end of the pipeline escape encoder -> encode_frame ->
\* OutputStream::next -> InputStream::push are, concatenated, S.
C2_RoundTrip == RTComplete => ReceivedBytes(log) = source

---------------------------------------------------------------------------
(* The loopback of main(): a Connection with a finite source on a          *)
(* DebugDevice, polled while poll() returns true.                          *)

InitLoop ==
    /\ source \in SeqsUpTo(Bytes, MaxSrcLen)
    /\ escaped = Escaped_new(<<>>)
    /\ yielded = <<>>
    /\ pre = Escaped_new(<<>>)
    /\ post = Escaped_new(<<>>)
    /\ frame = <<>>
    /\ panicked = FALSE
    /\ o_stream = OutputStream_new
    /\ emitted = <<>>
    /\ i_stream = InputStream_new
    /\ log = <<>>
    /\ wire = NoWire
    /\ connection = Connection_new(source)
    /\ device = DebugDevice_new
    /\ sink = [here |-> <<>>, other_side |-> <<>>]
    /\ returned = "none"
    /\ polls = 0

\* the state after a poll() with result r
Polled(r) ==
    /\ connection' = r.c
    /\ device' = r.d
    /\ sink' = [here |-> sink.here \o r.wrote,
                other_side |-> sink.other_side \o r.other_wrote]
    /\ panicked' = r.panic
    /\ returned' = IF r.panic THEN returned
                   ELSE IF poll_result(r.c) THEN "true" ELSE "false"

\* while connection.poll() { .. }
Poll ==
    /\ ~panicked
    /\ returned # "false"
    /\ Polled(Loopback_poll(connection, device))
    /\ UNCHANGED <<packVars, outVars, inVars, polls>>

NextLoop == Poll

SpecLoop == InitLoop /\ [][NextLoop]_vars

\* poll() has returned true and another poll() changes nothing: every
\* further poll() returns true as well
Stuck ==
    /\ ~panicked
    /\ returned = "true"
    /\ Loopback_poll(connection, device) =
          [c |-> connection, d |-> device, wrote |-> <<>>,
           other_wrote |-> <<>>, panic |-> FALSE]

\* C3: in the loopback every byte of the endpoint's source ends up in the
\* peer's sink, in source order: once polling has stopped or has nothing
\* left to change, the peer's sink starts with the whole source.
C3_Delivered ==
    (Stuck \/ returned = "false") => IsPrefix(source, sink.other_side)

\* C10: in the loopback repeated poll() calls eventually return false: no
\* run reaches a state that every further poll() leaves as it is while
\* returning true.
C10_Terminates == ~Stuck

---------------------------------------------------------------------------
(* A Connection on a device whose read() may return any nibble.            *)

\* nibbles the device reads: enough for the windows x34y and x67y
ReadNibbles == {\H0, \H3, \H4, \H6, \H7}

InitConn ==
    /\ source \in SeqsUpTo({\H00, \H23}, FRAME_DATA_LEN + 1)
    /\ escaped = Escaped_new(<<>>)
    /\ yielded = <<>>
    /\ pre = Escaped_new(<<>>)
    /\ post = Escaped_new(<<>>)
    /\ frame = <<>>
    /\ panicked = FALSE
    /\ o_stream = OutputStream_new
    /\ emitted = <<>>
    /\ i_stream = InputStream_new
    /\ log = <<>>
    /\ wire = NoWire
    /\ connection = Connection_new(source)
    /\ device = [other_side |-> Connection_new(<<>>), incoming |-> None,
                 outgoing |-> 0]
    /\ sink = [here |-> <<>>, other_side |-> <<>>]
    /\ returned = "none"
    /\ polls = 0

\* the result of a poll() whose part of the Connection is a, on a device
\* that does no debug_poll: incoming keeps the nibble sent (None: no
\* send), outgoing the nibble read
AnyDevice_poll(a, d, nibble_in) ==
    [c |-> a.c, d |-> [d EXCEPT !.incoming = a.sent, !.outgoing = nibble_in],
     wrote |-> a.written, other_wrote |-> <<>>, panic |-> a.panic]

\* one poll() with read() returning any of ReadNibbles
ConnPoll ==
    /\ ~panicked
    /\ polls < MaxPolls
    /\ \E nibble_in \in ReadNibbles :
         Polled(AnyDevice_poll(Connection_poll(connection, nibble_in),
                               device, nibble_in))
    /\ polls' = polls + 1
    /\ UNCHANGED <<packVars, outVars, inVars>>

NextConn == ConnPoll

SpecConn == InitConn /\ [][NextConn]_vars

\* C9: poll() returns false exactly when the byte source is exhausted and
\* done_receiving is true: it returns false once the source has returned
\* its None and done_receiving is set, and it returns false only when no
\* byte of the source is left and done_receiving is set.
C9_PollResult ==
    returned # "none" =>
        /\ (connection.data.src_none /\ connection.done_receiving)
              => returned = "false"
        /\ returned = "false"
              => (Rest(connection.data) = <<>> /\ connection.done_receiving)

---------------------------------------------------------------------------
(* A Connection on a device whose read() returns the nibbles of a script:  *)
(* up to MaxPieces pieces, each an acknowledgement, a refusal, a stop, a   *)
(* frame or a quiet stretch.  log has the Command of every poll.           *)

Pieces ==
    { <<3, 4>>, <<4, 5>>, <<6, 7>>, <<0>>, <<15, 0>>,
      Nibbles(<<StartOfFrame>> \o IdleOf(FRAME_DATA_LEN) \o <<EndOfFrame>>) }

RECURSIVE Scripts(_)
Scripts(n) ==
    IF n = 0 THEN {<<>>}
    ELSE Scripts(n - 1)
         \cup {s \o p : s \in Scripts(n - 1), p \in Pieces}

InitTick ==
    /\ source \in SeqsUpTo({\H23, \Ha0}, FRAME_DATA_LEN + 1)
    /\ escaped = Escaped_new(<<>>)
    /\ yielded = <<>>
    /\ pre = Escaped_new(<<>>)
    /\ post = Escaped_new(<<>>)
    /\ frame = <<>>
    /\ panicked = FALSE
    /\ o_stream = OutputStream_new
    /\ emitted = <<>>
    /\ i_stream = InputStream_new
    /\ log = <<>>
    /\ \E s \in Scripts(MaxPieces) : wire = Line("script", <<>>, s)
    /\ connection = Connection_new(source)
    /\ device = [other_side |-> Connection_new(<<>>), incoming |-> None,
                 outgoing |-> 0]
    /\ sink = [here |-> <<>>, other_side |-> <<>>]
    /\ returned = "none"
    /\ polls = 0

\* one poll() with read() returning nibble_in
Ticked(nibble_in) ==
    /\ Polled(AnyDevice_poll(Connection_poll(connection, nibble_in),
                             device, nibble_in))
    /\ log' = Append(log, [frame |-> wire.fi,
                           cmd |-> m_push(connection.i_stream, nibble_in).cmd])

Tick ==
    /\ ~panicked
    /\ wire.pos < Len(wire.nibbles)
    /\ Ticked(wire.nibbles[wire.pos + 1])
    /\ wire' = [wire EXCEPT !.pos = wire.pos + 1]
    /\ polls' = polls + 1
    /\ UNCHANGED <<packVars, outVars, i_stream>>

NextTick == Tick

SpecTick == InitTick /\ [][NextTick]_vars

\* C16: every poll() calls device.send once with the next nibble of the
\* OutputStream, also when the output stream has no frame nibble left,
\* and device.read once: after a poll the device holds the nibble sent to
\* it and the nibble read from it.
C16_PollTick ==
    (polls > 0 /\ ~panicked) =>
        /\ device.incoming # None
        /\ device.outgoing = wire.nibbles[wire.pos]

\* the frame encode_frame builds from the first t bytes of the escaped
\* stream s
FrameOf(s, t) ==
    [i \in 1..FRAME_LEN |->
        IF i = 1 THEN StartOfFrame
        ELSE IF i = FRAME_LEN THEN EndOfFrame
        ELSE IF i - 1 <= t THEN s[i - 1] ELSE 0]

\* the Command of the poll of this step
Polling(kinds) == log' # log /\ log'[Len(log')].cmd.kind \in kinds

\* the bytes of the escaped source that this step consumed
Consumed == Len(Rest(connection.data)) - Len(Rest(connection'.data))

\* C17: a poll() whose Command is None, Received, ResendLastFrame or
\* StopReceivingData consumes no byte of the source and leaves the armed
\* frame as it is; a poll() whose Command is SendNextFrame consumes at
\* most FRAME_DATA_LEN bytes of the escaped source, the next ones in
\* order, and arms the frame built from them.
C17_SourceConsumption ==
    [][/\ Polling({"None", "Received", "ResendLastFrame",
                   "StopReceivingData"}) =>
            /\ connection'.data = connection.data
            /\ connection'.o_stream.frame = connection.o_stream.frame
       /\ Polling({"SendNextFrame"}) =>
            /\ Consumed \in 0..FRAME_DATA_LEN
            /\ Len(connection.data.bytes) - Len(connection'.data.bytes)
                   \in 0..FRAME_DATA_LEN
            /\ Rest(connection'.data) =
                   SubSeq(Rest(connection.data), Consumed + 1,
                          Len(Rest(connection.data)))
            /\ connection'.o_stream =
                   [frame |-> FrameOf(Rest(connection.data), Consumed),
                    index |-> 0]]_vars

\* a SendNextFrame has armed a frame of source bytes that the first frame
\* had no room for, and polls of every other kind have happened
C17_Witness ==
    /\ log # <<>>
    /\ log[Len(log)].cmd.kind = "SendNextFrame"
    /\ Len(Rest(Escaped_new(source))) > FRAME_DATA_LEN
    /\ connection.o_stream.frame[2] # 0
    /\ connection.o_stream.index = 0
    /\ \E k \in 1..Len(log) : log[k].cmd.kind = "ResendLastFrame"

---------------------------------------------------------------------------
(* A fresh InputStream of stream.rs pushed a script of up to MaxPieces     *)
(* pieces: the two nibbles of an escape code, a single data nibble, or a   *)
(* byte with bits above the nibble.                                        *)

EdgePieces ==
    {<<Hi(v), Lo(v)>> : v \in VALUES} \cup {<<0>>, <<\H0a>>, <<\H13>>}

RECURSIVE EdgeScripts(_)
EdgeScripts(n) ==
    IF n = 0 THEN {<<>>}
    ELSE EdgeScripts(n - 1)
         \cup {s \o p : s \in EdgeScripts(n - 1), p \in EdgePieces}

InitEdge ==
    /\ InitLine
    /\ \E s \in EdgeScripts(MaxPieces) : wire = Line("script", <<>>, s)

NextEdge == LinePush

SpecEdge == InitEdge /\ [][NextEdge]_vars

\* the nibble that the push of this step passes
PushedNibble == wire.nibbles[wire.pos + 1]

\* this step is a push of a value that differs from the line's last one
Edge == wire'.pos = wire.pos + 1
        /\ PushedNibble % 16 # i_stream.window % 16

\* this step is a push that brings the window to four nibbles
Full == Edge /\ i_stream.window_length = 3

\* the two bytes of the window after the push of this step
WinHi == i_stream'.window \div 256
WinLo == i_stream'.window % 256

\* C21: a push whose value, taken & 0x0f, equals the low nibble of the
\* window returns None and changes nothing of the stream; any other push
\* shifts the window left by four bits with the value's low nibble as the
\* new low nibble.
C21_TransitionFilter ==
    [][wire'.pos = wire.pos + 1 =>
         IF PushedNibble % 16 = i_stream.window % 16
         THEN i_stream' = i_stream /\ log' = log /\ ~panicked'
         ELSE i_stream'.window =
                  ((i_stream.window * 16) % 65536) + (PushedNibble % 16)]_vars

\* a repeated value has been pushed after a decoded code: the stream is in
\* ReadingFrame and the last push was filtered
C21_Witness ==
    /\ wire.pos > 4
    /\ i_stream.state = "ReadingFrame"
    /\ wire.nibbles[wire.pos] % 16 = wire.nibbles[wire.pos - 1] % 16
    /\ wire.nibbles[wire.pos] > 15

\* C22: after any pushes window_length is within 0..4 and the low four
\* bits of the window are those of the last value pushed.
C22_WindowInvariant ==
    /\ i_stream.window_length \in 0..4
    /\ wire.pos > 0 =>
          i_stream.window % 16 = wire.nibbles[wire.pos] % 16

\* the window has been decoded more than once
C22_Witness ==
    /\ wire.pos >= 6
    /\ i_stream.window_length = 3
    /\ i_stream.state = "ReadingFrame"
    /\ i_stream.data_index > 0

\* the cell data[data_index / 2] before the push of this step
Cell == (i_stream.data_index \div 2) + 1

\* the value of that cell after the nibble v was or-ed in at data_index
NibbleWritten(v) ==
    LET old == i_stream.data[Cell] IN
    IF i_stream.data_index % 2 = 0
    THEN 16 * BitOr(Hi(old), v, 4) + Lo(old)
    ELSE 16 * Hi(old) + BitOr(Lo(old), v, 4)

\* C23: the window is decoded only by the push that brings window_length
\* to 4.  With hi and lo the two bytes of the window: hi an escape code
\* and hi = lo gives Byte(hi) and window_length 0; hi an escape code and
\* hi # lo gives EscapeCode(hi) and window_length 2; else Nibble(hi >> 4)
\* and window_length 3.  (In ReadingFrame a Byte is stored in the cell at
\* data_index and a Nibble or-ed into it; an escape code stores nothing.)
C23_WindowDecoding ==
    [][/\ (Edge /\ ~Full) =>
            /\ i_stream'.window_length = i_stream.window_length + 1
            /\ i_stream'.data = i_stream.data
            /\ i_stream'.data_index = i_stream.data_index
            /\ i_stream'.state = i_stream.state
            /\ log' = log
       /\ Full =>
            IF WinHi \in VALUES /\ WinHi = WinLo
            THEN /\ i_stream'.window_length = 0
                 /\ log' = log
                 /\ (i_stream.state = "ReadingFrame" /\ ~panicked') =>
                       /\ i_stream'.data =
                              [i_stream.data EXCEPT ![Cell] = WinHi]
                       /\ i_stream'.data_index = i_stream.data_index + 2
            ELSE IF WinHi \in VALUES
            THEN /\ i_stream'.window_length = 2
                 /\ i_stream'.data = i_stream.data
                 /\ i_stream'.data_index \in {i_stream.data_index, 0}
            ELSE /\ i_stream'.window_length = 3
                 /\ log' = log
                 /\ (i_stream.state = "ReadingFrame" /\ ~panicked') =>
                       /\ i_stream'.data =
                              [i_stream.data EXCEPT
                                 ![Cell] = NibbleWritten(WinHi \div 16)]
                       /\ i_stream'.data_index = i_stream.data_index + 1]_vars

\* a doubled code has been decoded as a byte inside a frame and stored in
\* the first cell
C23_Witness ==
    /\ i_stream.state = "ReadingFrame"
    /\ i_stream.data[1] \in VALUES
    /\ i_stream.data_index = 2
    /\ i_stream.window_length = 0

\* C24: in WaitingForFrame a decoded StartOfFrame moves the stream to
\* ReadingFrame with data_index 0 and returns None; CorrectFrameData
\* returns SendNextFrame, IncorrectFrameData ResendLastFrame and
\* FinishedSending StopReceivingData; Buffer, EndOfFrame and every decoded
\* nibble or byte return None; nothing but StartOfFrame leaves the state,
\* and nothing is written into data.
C24_WaitingTransitions ==
    [][(Full /\ i_stream.state = "WaitingForFrame") =>
         /\ i_stream'.data = i_stream.data
         /\ i_stream'.data_index = 0
         /\ ~panicked'
         /\ i_stream'.state =
               IF WinHi = \H12 /\ WinLo # \H12
               THEN "ReadingFrame" ELSE "WaitingForFrame"
         /\ log' =
               IF WinHi = WinLo THEN log
               ELSE IF WinHi = \H34
               THEN Append(log, [frame |-> wire.fi,
                                 cmd |-> Cmd("SendNextFrame")])
               ELSE IF WinHi = \H45
               THEN Append(log, [frame |-> wire.fi,
                                 cmd |-> Cmd("ResendLastFrame")])
               ELSE IF WinHi = \H67
               THEN Append(log, [frame |-> wire.fi,
                                 cmd |-> Cmd("StopReceivingData")])
               ELSE log]_vars

\* outside a frame the stream has answered a stop and then an
\* acknowledgement
C24_Witness ==
    /\ i_stream.state = "WaitingForFrame"
    /\ Len(log) = 2
    /\ log[1].cmd.kind = "StopReceivingData"
    /\ log[2].cmd.kind = "SendNextFrame"

---------------------------------------------------------------------------
(* Window<N> on its own: any push_back and pop_back calls on a new window, *)
(* as the test `window` makes them.  log has the calls with their          *)
(* arguments (took) and results (item).                                    *)

WindowNibbles == {\H05, \H0e}

WindowPushBack ==
    /\ Len(log) < MaxWindowCalls
    /\ \E n \in WindowNibbles :
          LET r == Window_push_back(o_stream.window, n) IN
          /\ o_stream' = [o_stream EXCEPT !.window = r.w]
          /\ log' = Append(log, Call("push_back", <<>>, r.item, "", n))
    /\ UNCHANGED <<packVars, panicked, emitted, i_stream, wire, connVars>>

WindowPopBack ==
    /\ Len(log) < MaxWindowCalls
    /\ LET r == Window_pop_back(o_stream.window) IN
       /\ o_stream' = [o_stream EXCEPT !.window = r.w]
       /\ log' = Append(log, Call("pop_back", <<>>, r.item, "", None))
    /\ UNCHANGED <<packVars, panicked, emitted, i_stream, wire, connVars>>

NextWindow == WindowPushBack \/ WindowPopBack

SpecWindow == InitCalls /\ [][NextWindow]_vars

\* a deque of capacity 2N after the calls l, oldest nibble first
RECURSIVE Deque(_)
Deque(l) ==
    IF l = <<>> THEN <<>>
    ELSE LET d == Deque(SubSeq(l, 1, Len(l) - 1))
             c == l[Len(l)]
         IN IF c.call = "push_back"
            THEN IF Len(d) = 2 * WINDOW_N THEN Append(Tail(d), c.took)
                 ELSE Append(d, c.took)
            ELSE IF d = <<>> THEN d ELSE SubSeq(d, 1, Len(d) - 1)

\* what the last call of l returns on that deque
Answer(l) ==
    LET d == Deque(SubSeq(l, 1, Len(l) - 1)) IN
    IF l[Len(l)].call = "push_back"
    THEN IF Len(d) = 2 * WINDOW_N THEN d[1] ELSE None
    ELSE IF d = <<>> THEN None ELSE d[Len(d)]

\* C27: Window<N> is a deque of at most 2N nibbles: push_back appends and
\* returns None while it is not full, and drops and returns the oldest
\* nibble when it is; get(i) is the i-th most recent nibble for i < len
\* and None from len on; pop_back takes the most recent nibble, None once
\* empty; len is within 0..2N.
C27_WindowDeque ==
    LET d == Deque(log) IN
    /\ o_stream.window.len = Len(d)
    /\ o_stream.window.len \in 0..(2 * WINDOW_N)
    /\ \A i \in 0..(2 * WINDOW_N) :
          Window_get(o_stream.window, i) =
              IF i < Len(d) THEN d[Len(d) - i] ELSE None
    /\ log # <<>> => log[Len(log)].item = Answer(log)

\* a push_back on a full window has dropped the oldest nibble, which
\* differs from the one pushed, and the pop_back after it has taken the
\* one pushed
C27_Witness ==
    /\ Len(log) >= 2
    /\ log[Len(log)].call = "pop_back"
    /\ log[Len(log) - 1].call = "push_back"
    /\ log[Len(log) - 1].item \notin {None, log[Len(log) - 1].took}
    /\ log[Len(log)].item = log[Len(log) - 1].took
    /\ o_stream.window.len = 2 * WINDOW_N - 1

---------------------------------------------------------------------------
(* The line between the two Connections of SpecLoop.  device.incoming is   *)
(* the nibble this side sent last, device.outgoing the one the other side  *)
(* sent last; the low nibble of an InputStream's window is the value of    *)
(* its last push.                                                          *)

\* the nibble that a poll() of a Connection with output stream o sends,
\* None when it sends nothing
Sending(o) ==
    IF o.index >= 2 * FRAME_LEN THEN None
    ELSE IF o.index % 2 = 0 THEN Hi(o.frame[(o.index \div 2) + 1])
    ELSE Lo(o.frame[(o.index \div 2) + 1])

\* the line value after a poll of a side that found old on it
LineAfter(o, old) == IF Sending(o) = None THEN old ELSE Sending(o)

\* C25: in every poll() of the looped pair, this side's read returns the
\* nibble the other side sent last; the nibble this side sends, the next
\* of its frame, is the one pushed into the other side's InputStream in
\* the same poll, and when it sends nothing the other side reads the
\* unchanged line again; the nibble the other side sends is on the line
\* for this side's next read.  So each side is pushed the other's nibbles
\* in the order sent, none lost.
C25_LoopbackOrdering ==
    [][~panicked' =>
         /\ connection'.i_stream.window % 16 = device.outgoing
         /\ device'.incoming =
                LineAfter(connection.o_stream, device.incoming)
         /\ device'.other_side.i_stream.window % 16 = device'.incoming
         /\ device'.outgoing =
                LineAfter(device.other_side.o_stream, device.outgoing)]_vars

\* after four polls the other side has been pushed this side's
\* StartOfFrame and a data byte that is not zero, and this side, one poll
\* behind, the other side's StartOfFrame and the first nibble after it
C25_Witness ==
    /\ connection.o_stream.index = 4
    /\ device.other_side.o_stream.index = 4
    /\ device.other_side.i_stream.window \div 256 = StartOfFrame
    /\ device.other_side.i_stream.window % 256 = connection.o_stream.frame[2]
    /\ connection.o_stream.frame[2] # 0
    /\ connection.i_stream.window = 16 * StartOfFrame
    /\ device.outgoing = 0

=============================================================================
